---- MODULE Spec2Model ----
(***************************************************************************)
(* Model of PlexLibraryViewer.py: the interactive menu loop, the server    *)
(* filter, the catalog grouping and the menu construction.                 *)
(*                                                                         *)
(* A Python str is a sequence of one-character strings; comparisons are by *)
(* code point, as Python's are.  One action is one answer of the user to   *)
(* the dialog on screen, followed by all the code that runs until the next *)
(* dialog is on screen or the process has ended.                           *)
(***************************************************************************)
EXTENDS Integers, Sequences, FiniteSets

(* ------------------------------ bounds --------------------------------- *)
\* longest list account.resources() returns
MaxResources == 2
\* longest list server.library.all() returns
MaxItems == 3

(* ------------------------------ strings -------------------------------- *)
Punct == << " ", "(", ")", ",", "." >>
Digits == << "0", "1", "2", "3", "4", "5", "6", "7", "8", "9" >>
Uppers ==
  << "A", "B", "C", "D", "E", "F", "G", "H", "I", "J", "K", "L", "M",
     "N", "O", "P", "Q", "R", "S", "T", "U", "V", "W", "X", "Y", "Z" >>
Lowers ==
  << "a", "b", "c", "d", "e", "f", "g", "h", "i", "j", "k", "l", "m",
     "n", "o", "p", "q", "r", "s", "t", "u", "v", "w", "x", "y", "z" >>

\* the characters used, in code-point order
Alphabet == Punct \o Digits \o Uppers \o Lowers

\* ord(c), up to an order-preserving renumbering
Ord(c) == CHOOSE i \in 1..Len(Alphabet) : Alphabet[i] = c

\* one character of str.lower()
LowerChar(c) ==
  IF \E i \in 1..Len(Uppers) : Uppers[i] = c
    THEN Lowers[CHOOSE i \in 1..Len(Uppers) : Uppers[i] = c]
    ELSE c

\* s.lower()
Lower(s) == [i \in 1..Len(s) |-> LowerChar(s[i])]

\* needle in hay
Contains(needle, hay) ==
  \E i \in 0..(Len(hay) - Len(needle)) :
     SubSeq(hay, i + 1, i + Len(needle)) = needle

\* a < b on str
StrLess(a, b) ==
  \E k \in 1..Len(b) :
     /\ \A i \in 1..(k - 1) : i <= Len(a) /\ a[i] = b[i]
     /\ \/ k = Len(a) + 1
        \/ k <= Len(a) /\ Ord(a[k]) < Ord(b[k])

\* '%d' % n, n >= 0
RECURSIVE IntToStr(_)
IntToStr(n) == IF n < 10 THEN << Digits[n + 1] >>
               ELSE IntToStr(n \div 10) \o << Digits[(n % 10) + 1] >>

(* ----------------------------- constants ------------------------------- *)
TOOL_NAME == << "P","l","e","x"," ","L","i","b","r","a","r","y"," ",
                "V","i","e","w","e","r" >>
VERSION == << "0",".","0",".","1" >>
\* TEXT['title_main'], without the colour markup
TitleMain == TOOL_NAME \o << " ", "v" >> \o VERSION

MEDIA_TEXT ==
  [ artist |-> << "M","u","s","i","c"," ","A","r","t","i","s","t" >>,
    movie  |-> << "M","o","v","i","e" >>,
    show   |-> << "T","V"," ","S","h","o","w" >> ]

\* the needle of the server filter
ServerTag == << "s","e","r","v","e","r" >>

\* longest duration given to ms_to_str, in hours
MaxHours == 100

\* longest string given to break_string
MaxStrLen == 6
\* largest max_width given to break_string
MaxWidth == 6

(* --------------------------- external data ----------------------------- *)
\* what a resource of the account can look like: name and provides
ResourcePool ==
  { [name |-> << "B","e","t","a" >>,     provides |-> << "s","e","r","v","e","r" >>],
    [name |-> << "A","l","p","h","a" >>,
     provides |-> << "c","l","i","e","n","t",",","S","e","r","v","E","R" >>],
    [name |-> << "R","o","k","u" >>,
     provides |-> << "c","l","i","e","n","t",",","p","l","a","y","e","r" >>],
    [name |-> << "A","l","p","h","a" >>, provides |-> << "s","e","r","v","e" >>] }

\* the lists account.resources() can return; id is the object's identity
ResourceLists ==
  UNION { { [i \in 1..n |-> [id |-> i, name |-> f[i].name, provides |-> f[i].provides]] :
            f \in [1..n -> ResourcePool] } : n \in 0..MaxResources }

\* what a catalog item can look like: type, title and year (<< >> is None)
ItemPool ==
  { [type |-> "movie",  title |-> << "U","p" >>,         year |-> << 2009 >>],
    [type |-> "movie",  title |-> << "H","e","a","t" >>, year |-> << 1995 >>],
    [type |-> "movie",  title |-> << "U","p" >>,         year |-> << >>],
    [type |-> "show",   title |-> << "L","o","s","t" >>, year |-> << 2004 >>],
    [type |-> "artist", title |-> << "A","b","b","a" >>, year |-> << >>],
    [type |-> "photo",  title |-> << "P","i","c" >>,     year |-> << >>] }

\* the lists server.library.all() can return; id is the object's identity
Catalogs ==
  UNION { { [i \in 1..n |-> [id |-> i, type |-> f[i].type, title |-> f[i].title,
                             year |-> f[i].year]] :
            f \in [1..n -> ItemPool] } : n \in 0..MaxItems }


\* the durations given to ms_to_str: whole hours plus a part of an hour
Durations ==
  { h * 3600000 + r : h \in 0..MaxHours,
                      r \in {0, 500, 1000, 59999, 61000, 3599999} }

\* the strings given to break_string: words of a and b, single spaces or more
BreakInputs ==
  UNION { [1..n -> {"a", "b", " "}] : n \in 0..MaxStrLen }

\* the movies given to show_movie; None is << >>, a date is year, month, day
\* and a rating is in tenths
MovieDetails ==
  [title                 : {<< >>, << << "U", "p" >> >>},
   editionTitle          : {<< >>, << << "C", "u", "t" >> >>},
   originalTitle         : {<< >>, << << "O", "b", "e", "n" >> >>},
   duration              : {<< >>, << 0 >>, << 5765432 >>},
   originallyAvailableAt : {<< >>, << << 2009, 5, 29 >> >>},
   contentRating         : {<< >>, << << "P", "G" >> >>},
   rating                : {<< >>, << 83 >>}]

(* --------------------------- pure functions ---------------------------- *)
\* list.sort(key=lambda x: x[1]) on a list of <<value, label>> pairs:
\* ascending by label, equal labels keep their order
RECURSIVE SortByLabel(_)
SortByLabel(l) ==
  IF l = << >> THEN << >>
  ELSE LET rest == SortByLabel(SubSeq(l, 1, Len(l) - 1))
           x    == l[Len(l)]
           \* x goes after every element whose label is not greater
           k    == Cardinality({ i \in 1..Len(rest) : ~ StrLess(x[2], rest[i][2]) })
       IN  SubSeq(rest, 1, k) \o << x >> \o SubSeq(rest, k + 1, Len(rest))

\* the filter without .lower()
ProvidesServerCaseSensitive(resource) == Contains(ServerTag, resource.provides)

\* the condition of the server filter
ProvidesServer(resource) == Contains(ServerTag, Lower(resource.provides))

\* the loop of select_server that collects the servers
RECURSIVE CollectServers(_)
CollectServers(rs) ==
  IF rs = << >> THEN << >>
  ELSE LET r == rs[Len(rs)]
           before == CollectServers(SubSeq(rs, 1, Len(rs) - 1))
       IN  IF ProvidesServer(r) THEN Append(before, << r, r.name >>) ELSE before

\* the values select_server hands to its dialog
ServerValues(rs) == SortByLabel(CollectServers(rs))

\* selection.connect()
Connect(resource) == [resource |-> resource.id, friendlyName |-> resource.name]

\* index of type t in the grouping, 0 when it is no key
KeyIndex(m, t) ==
  IF \E i \in 1..Len(m) : m[i][1] = t
    THEN CHOOSE i \in 1..Len(m) : m[i][1] = t
    ELSE 0

\* the grouping loop with insert(0, item) for append(item)
RECURSIVE server_list_all_newest_first(_)
server_list_all_newest_first(all) ==
  IF all = << >> THEN << >>
  ELSE LET item == all[Len(all)]
           m    == server_list_all_newest_first(SubSeq(all, 1, Len(all) - 1))
           k    == KeyIndex(m, item.type)
       IN  IF k = 0 THEN Append(m, << item.type, << item >> >>)
           ELSE [m EXCEPT ![k] = << item.type, << item >> \o m[k][2] >>]

\* the grouping loop of server_list_all; a dict is a list of <<key, list>>
\* in insertion order
RECURSIVE server_list_all(_)
server_list_all(all) ==
  IF all = << >> THEN << >>
  ELSE LET item == all[Len(all)]
           m    == server_list_all(SubSeq(all, 1, Len(all) - 1))
           k    == KeyIndex(m, item.type)
       IN  IF k = 0 THEN Append(m, << item.type, << item >> >>)
           ELSE [m EXCEPT ![k] = << item.type, Append(m[k][2], item) >>]

\* MEDIA_TEXT[t] raises KeyError
MediaKeyError(m) == \E i \in 1..Len(m) : m[i][1] \notin DOMAIN MEDIA_TEXT

\* "%s (%d items)" % (MEDIA_TEXT[t], len(l))
MediaLabel(t, l) ==
  MEDIA_TEXT[t] \o << " ", "(" >> \o IntToStr(Len(l))
    \o << " ", "i", "t", "e", "m", "s", ")" >>

\* the values of the media-type dialog
MediaValues(m) ==
  SortByLabel([i \in 1..Len(m) |-> << m[i][1], MediaLabel(m[i][1], m[i][2]) >>])

\* '%d' % movie.year raises TypeError
MovieTypeError(l) == \E i \in 1..Len(l) : l[i].year = << >>

\* '%s (%d)' % (movie.title, movie.year)
MovieLabel(mv) == mv.title \o << " ", "(" >> \o IntToStr(mv.year[1]) \o << ")" >>

\* the values of the movie dialog
MovieValues(l) == SortByLabel([i \in 1..Len(l) |-> << l[i], MovieLabel(l[i]) >>])

\* media_by_type[t]
Group(m, t) == m[KeyIndex(m, t)][2]

\* 'Movies (%s)' % server.friendlyName
MoviesTitle(srv) ==
  << "M", "o", "v", "i", "e", "s", " ", "(" >> \o srv.friendlyName \o << ")" >>

\* s.split(' ')
RECURSIVE split_space(_)
split_space(s) ==
  IF \E i \in 1..Len(s) : s[i] = " "
    THEN LET i == CHOOSE i \in 1..Len(s) :
                    s[i] = " " /\ \A j \in 1..(i - 1) : s[j] # " "
         IN  << SubSeq(s, 1, i - 1) >> \o split_space(SubSeq(s, i + 1, Len(s)))
    ELSE << s >>

\* the same without the word
break_before_no_word(col, word, max_width) == col >= max_width

\* col + len(word) + 1 >= max_width
break_before(col, word, max_width) == col + Len(word) + 1 >= max_width

\* col and text of break_string after the words ws
RECURSIVE break_loop(_, _)
break_loop(ws, max_width) ==
  IF ws = << >> THEN [col |-> 0, text |-> << >>]
  ELSE LET st   == break_loop(SubSeq(ws, 1, Len(ws) - 1), max_width)
           word == ws[Len(ws)]
           b    == break_before(st.col, word, max_width)
       IN  [col  |-> (IF b THEN 0 ELSE st.col) + Len(word) + 1,
            text |-> (IF b THEN st.text \o << "\n" >> ELSE st.text)
                       \o word \o << " " >>]

\* break_string(s, max_width)
break_string(s, max_width) == break_loop(split_space(s), max_width).text

\* str.zfill(w) of a string of digits
zfill(s, w) ==
  IF Len(s) >= w THEN s ELSE [i \in 1..(w - Len(s)) |-> "0"] \o s

\* '%s:%s:%s.%s' % (str(h).zfill(2), str(m).zfill(2), str(s).zfill(2), str(d).zfill(3))
ms_to_str_format(h, m, s, d) ==
  zfill(IntToStr(h), 2) \o << ":" >> \o zfill(IntToStr(m), 2) \o << ":" >>
    \o zfill(IntToStr(s), 2) \o << "." >> \o zfill(IntToStr(d), 3)

\* ms_to_str with the hours wrapped at a day
ms_to_str_hours_of_day(d) ==
  ms_to_str_format((d \div 3600000) % 24, (d % 3600000) \div 60000,
                   ((d % 3600000) % 60000) \div 1000,
                   ((d % 3600000) % 60000) % 1000)

\* ms_to_str without d %= 60000
ms_to_str_minutes_kept(d) ==
  ms_to_str_format(d \div 3600000, (d % 3600000) \div 60000,
                   (d % 3600000) \div 1000,
                   (d % 3600000) % 1000)

\* ms_to_str(d), d >= 0
ms_to_str(d) ==
  LET h  == d \div 3600000
      d1 == d % 3600000
      m  == d1 \div 60000
      d2 == d1 % 60000
      s_ == d2 \div 1000
      d3 == d2 % 1000
  IN  ms_to_str_format(h, m, s_, d3)

\* '%s' % x for x None or a string
str_(x) == IF x = << >> THEN << "N", "o", "n", "e" >> ELSE x[1]

\* date.strftime("%Y-%m-%d")
strftime_Ymd(date) ==
  zfill(IntToStr(date[1]), 4) \o << "-" >> \o zfill(IntToStr(date[2]), 2)
    \o << "-" >> \o zfill(IntToStr(date[3]), 2)

\* '%s' % x for a float x of one decimal, given in tenths
str_float(x) == IntToStr(x \div 10) \o << "." >> \o IntToStr(x % 10)

\* the text show_movie builds: each format literal is one element, each
\* substituted value the sequence of its characters
show_movie_text(mv) ==
  LET t0 == << "<ansired>- Title:</ansired> " >> \o str_(mv.title)
      t1 == IF mv.editionTitle # << >>
              THEN t0 \o << " [" >> \o str_(mv.editionTitle) \o << "]" >>
              ELSE t0
      t2 == IF mv.originalTitle # << >>
              THEN t1 \o << "\n<ansired>- Original Title:</ansired> " >>
                      \o str_(mv.originalTitle)
              ELSE t1
      t3 == IF mv.duration # << >>
              THEN t2 \o << "\n<ansired>- Duration:</ansired> " >>
                      \o ms_to_str(mv.duration[1])
              ELSE t2
      t4 == IF mv.originallyAvailableAt # << >>
              THEN t3 \o << "\n<ansired>- Release Date:</ansired> " >>
                      \o strftime_Ymd(mv.originallyAvailableAt[1])
              ELSE t3
      t5 == IF mv.contentRating # << >>
              THEN t4 \o << "\n<ansired>- Content Rating:</ansired> " >>
                      \o str_(mv.contentRating)
              ELSE t4
  IN  IF mv.rating # << >>
        THEN t5 \o << "\n<ansired>- Critic Rating:</ansired> " >>
                \o str_float(mv.rating[1])
        ELSE t5

(* ------------------------------- state --------------------------------- *)
\* None is the empty tuple, a value x that is present is << x >>
VARIABLES
  pc,            \* the dialog call the program is blocked in, or "exited"
  dialog,        \* the dialog on screen: kind, title, values, password
  prev,          \* kind of the dialog answered last
  input,         \* the answer given to it: cancel, or the index chosen
  shown,         \* kinds of all dialogs shown so far
  exitcode,      \* process exit status once pc = "exited"
  fault,         \* what ended the process
  calls,         \* external calls made since the last answer, in order
  account,       \* TRUE once MyPlexAccount(...) has returned
  resources,     \* result of account.resources() in the running select_server
  server,        \* module-level variable server
  browse_server, \* argument server of the running server_operation_browse
  all_media,     \* all_media of the server_list_all of the running browse
  media_by_type, \* media_by_type of the running server_operation_browse
  movies,        \* movies of the running server_operation_browse
  movie,         \* argument of the running show_movie
  fn,            \* the function evaluated on its own, "none" in a program run
  arg,           \* its arguments
  ret            \* its return value, << >> before it has returned

vars == << pc, dialog, prev, input, shown, exitcode, fault, calls, account,
           resources, server, browse_server, all_media, media_by_type,
           movies, movie, fn, arg, ret >>

\* the variables of a function evaluated on its own
fn_vars == << fn, arg, ret >>

\* the variables of a program run
program_vars == << pc, dialog, prev, input, shown, exitcode, fault, calls,
                   account, resources, server, browse_server, all_media,
                   media_by_type, movies, movie >>

browse_locals == << browse_server, all_media, media_by_type, movies, movie >>

NoDialog == [kind |-> "none", title |-> << >>, values |-> << >>, password |-> FALSE]

\* message_dialog(title, text)
message_dialog(kind, title) ==
  [kind |-> kind, title |-> title, values |-> << >>, password |-> FALSE]

\* input_dialog(title, text): password is not passed and defaults to False
input_dialog(kind, title) ==
  [kind |-> kind, title |-> title, values |-> << >>, password |-> FALSE]

\* radiolist_dialog(title, text, values)
radiolist_dialog(kind, title, values) ==
  [kind |-> kind, title |-> title, values |-> values, password |-> FALSE]

\* the values of the operation dialog; the label stands for the HTML object
OperationValues == << << "browse", << "B", "r", "o", "w", "s", "e" >> >> >>

\* a dialog's run() starts: d is on screen
Show(d) ==
  /\ pc' = d.kind
  /\ dialog' = d
  /\ shown' = shown \cup {d.kind}
  /\ UNCHANGED << exitcode, fault >>

\* the process ends: exit(code), an uncaught exception, or the end of the script
Exit(code, why) ==
  /\ pc' = "exited"
  /\ dialog' = NoDialog
  /\ exitcode' = code
  /\ fault' = why
  /\ UNCHANGED shown

\* radiolist_dialog(...).run(): the toolkit's radio list requires at least
\* one value; with none, it raises or shows a list that can only be canceled,
\* depending on the toolkit
RunRadiolist(d) ==
  IF d.values = << >>
    THEN \/ Exit(1, "AssertionError")
         \/ Show(d)
    ELSE Show(d)

\* the user answers the dialog on screen
Answer(cancel, index) ==
  /\ prev' = pc
  /\ input' = [cancel |-> cancel, index |-> index]

\* the program has been started: show_welcome shows its message
ProgramInit ==
  /\ pc = "show_welcome"
  /\ dialog = message_dialog("show_welcome", TitleMain)
  /\ prev = "none"
  /\ input = [cancel |-> FALSE, index |-> 0]
  /\ shown = {"show_welcome"}
  /\ exitcode = 0
  /\ fault = "none"
  /\ calls = << >>
  /\ account = FALSE
  /\ resources = << >>
  /\ server = << >>
  /\ browse_server = << >>
  /\ all_media = << >>
  /\ media_by_type = << >>
  /\ movies = << >>
  /\ movie = << >>

\* no function is evaluated on its own in a program run
NoFunction ==
  /\ fn = "none"
  /\ arg = << >>
  /\ ret = << >>

Init == ProgramInit /\ NoFunction

(* ------------------------------ actions -------------------------------- *)
\* select_server(account) up to its dialog, after the calls `made`
SelectServerCall(made) ==
  \/ \* account.resources() raises
     /\ calls' = made \o << "resources" >>
     /\ Exit(1, "resources")
     /\ UNCHANGED << resources, server >>
  \/ \E rs \in ResourceLists :
       /\ calls' = made \o << "resources" >>
       /\ resources' = rs
       /\ RunRadiolist(radiolist_dialog("select_server", TitleMain, ServerValues(rs)))
       /\ UNCHANGED server

\* show_welcome: the message is dismissed, authenticate_myplex asks the username
Welcome ==
  /\ pc = "show_welcome"
  /\ UNCHANGED fn_vars
  /\ Answer(FALSE, 0)
  /\ Show(input_dialog("prompt_username", TitleMain))
  /\ calls' = << >>
  /\ UNCHANGED << account, resources, server, browse_locals >>

\* the username prompt without the check for None
UsernameUnchecked ==
  /\ pc = "prompt_username"
  /\ UNCHANGED fn_vars
  /\ \E cancel \in BOOLEAN :
       /\ Answer(cancel, 0)
       /\ Show(input_dialog("prompt_password", TitleMain))
  /\ calls' = << >>
  /\ UNCHANGED << account, resources, server, browse_locals >>

\* authenticate_myplex: the username prompt is answered
Username ==
  /\ pc = "prompt_username"
  /\ UNCHANGED fn_vars
  /\ \E cancel \in BOOLEAN :
       /\ Answer(cancel, 0)
       /\ IF cancel THEN Exit(1, "exit")
                    ELSE Show(input_dialog("prompt_password", TitleMain))
  /\ calls' = << >>
  /\ UNCHANGED << account, resources, server, browse_locals >>

\* authenticate_myplex: the password prompt is canceled
PasswordCancel ==
  /\ pc = "prompt_password"
  /\ UNCHANGED fn_vars
  /\ Answer(TRUE, 0)
  /\ Exit(1, "exit")
  /\ calls' = << >>
  /\ UNCHANGED << account, resources, server, browse_locals >>

\* authenticate_myplex: the password is given, MyPlexAccount(...) raises
PasswordAuthFails ==
  /\ pc = "prompt_password"
  /\ UNCHANGED fn_vars
  /\ Answer(FALSE, 0)
  /\ calls' = << "MyPlexAccount" >>
  /\ Exit(1, "MyPlexAccount")
  /\ UNCHANGED << account, resources, server, browse_locals >>

\* authenticate_myplex: the password is given, the account is returned and the
\* main loop calls select_server
PasswordSubmit ==
  /\ pc = "prompt_password"
  /\ UNCHANGED fn_vars
  /\ Answer(FALSE, 0)
  /\ account' = TRUE
  /\ SelectServerCall(<< "MyPlexAccount" >>)
  /\ UNCHANGED browse_locals

\* the canceled server dialog with exit(1) for break
ServerCancelAborts ==
  /\ pc = "select_server"
  /\ UNCHANGED fn_vars
  /\ Answer(TRUE, 0)
  /\ server' = << >>
  /\ resources' = << >>
  /\ calls' = << >>
  /\ Exit(1, "exit")
  /\ UNCHANGED << account, browse_locals >>

\* select_server: the dialog is canceled, the main loop breaks, the script ends
ServerCancel ==
  /\ pc = "select_server"
  /\ UNCHANGED fn_vars
  /\ Answer(TRUE, 0)
  /\ server' = << >>
  /\ resources' = << >>
  /\ calls' = << >>
  /\ Exit(0, "none")
  /\ UNCHANGED << account, browse_locals >>

\* select_server: a server is chosen and connected, select_server_operation
\* shows its dialog
ServerSelect ==
  /\ pc = "select_server"
  /\ UNCHANGED fn_vars
  /\ \E i \in 1..Len(dialog.values) :
       /\ Answer(FALSE, i)
       /\ calls' = << "connect" >>
       /\ \/ \* selection.connect() raises
             /\ Exit(1, "connect")
             /\ UNCHANGED << resources, server >>
          \/ LET srv == Connect(dialog.values[i][1])
             IN  /\ server' = << srv >>
                 /\ resources' = << >>
                 /\ RunRadiolist(radiolist_dialog("select_server_operation",
                                                  srv.friendlyName, OperationValues))
  /\ UNCHANGED << account, browse_locals >>

\* the loop of server_operation_browse up to its media-type dialog
MediaTypeMenu(srv, m) ==
  IF MediaKeyError(m)
    THEN Exit(1, "KeyError")
    ELSE RunRadiolist(radiolist_dialog("select_server_media_type",
                                       srv.friendlyName, MediaValues(m)))

\* the canceled operation dialog asked again for the same server
OperationCancelAsksAgain ==
  /\ pc = "select_server_operation"
  /\ UNCHANGED fn_vars
  /\ Answer(TRUE, 0)
  /\ calls' = << >>
  /\ Show(dialog)
  /\ UNCHANGED << account, resources, server, browse_locals >>

\* the canceled operation dialog with break for continue
OperationCancelBreaks ==
  /\ pc = "select_server_operation"
  /\ UNCHANGED fn_vars
  /\ Answer(TRUE, 0)
  /\ calls' = << >>
  /\ Exit(0, "none")
  /\ UNCHANGED << account, resources, server, browse_locals >>

\* the canceled operation dialog followed by a new MyPlexAccount
OperationCancelAuthenticates ==
  /\ pc = "select_server_operation"
  /\ UNCHANGED fn_vars
  /\ Answer(TRUE, 0)
  /\ SelectServerCall(<< "MyPlexAccount" >>)
  /\ UNCHANGED << account, browse_locals >>

\* select_server_operation: the dialog is canceled, the main loop continues
OperationCancel ==
  /\ pc = "select_server_operation"
  /\ UNCHANGED fn_vars
  /\ Answer(TRUE, 0)
  /\ SelectServerCall(<< >>)
  /\ UNCHANGED << account, browse_locals >>

\* the chosen operation with the failure of server.library.all() caught:
\* the operation dialog is shown again
OperationSelectCatches ==
  /\ pc = "select_server_operation"
  /\ UNCHANGED fn_vars
  /\ \E i \in 1..Len(dialog.values) :
       /\ Answer(FALSE, i)
       /\ browse_server' = server
       /\ calls' = << "library.all" >>
       /\ \/ /\ Show(dialog)
             /\ UNCHANGED << all_media, media_by_type >>
          \/ \E all \in Catalogs :
               /\ all_media' = all
               /\ media_by_type' = server_list_all(all)
               /\ MediaTypeMenu(server[1], server_list_all(all))
  /\ UNCHANGED << account, resources, server, movies, movie >>

\* select_server_operation: an operation is chosen; browse loads the catalog
OperationSelect ==
  /\ pc = "select_server_operation"
  /\ UNCHANGED fn_vars
  /\ \E i \in 1..Len(dialog.values) :
       /\ Answer(FALSE, i)
       /\ IF dialog.values[i][1] = "browse"
            THEN /\ browse_server' = server
                 /\ calls' = << "library.all" >>
                 /\ \/ \* server.library.all() raises
                       /\ Exit(1, "library.all")
                       /\ UNCHANGED << all_media, media_by_type >>
                    \/ \E all \in Catalogs :
                         /\ all_media' = all
                         /\ media_by_type' = server_list_all(all)
                         /\ MediaTypeMenu(server[1], server_list_all(all))
            ELSE /\ Exit(1, "ValueError")
                 /\ calls' = << >>
                 /\ UNCHANGED << browse_server, all_media, media_by_type >>
  /\ UNCHANGED << account, resources, server, movies, movie >>

\* the media-type dialog is canceled: server_operation_browse returns and the
\* main loop calls select_server
MediaTypeCancel ==
  /\ pc = "select_server_media_type"
  /\ UNCHANGED fn_vars
  /\ Answer(TRUE, 0)
  /\ browse_server' = << >>
  /\ all_media' = << >>
  /\ media_by_type' = << >>
  /\ movies' = << >>
  /\ movie' = << >>
  /\ SelectServerCall(<< >>)
  /\ UNCHANGED account

\* the media-type dialog is answered with a type
MediaTypeSelect ==
  /\ pc = "select_server_media_type"
  /\ UNCHANGED fn_vars
  /\ \E i \in 1..Len(dialog.values) :
       LET media_type == dialog.values[i][1]
       IN  /\ Answer(FALSE, i)
           /\ IF media_type = "movie"
                THEN IF MovieTypeError(Group(media_by_type, media_type))
                       THEN /\ Exit(1, "TypeError")
                            /\ UNCHANGED movies
                       ELSE /\ movies' = MovieValues(Group(media_by_type, media_type))
                            /\ RunRadiolist(radiolist_dialog("select_movie",
                                   MoviesTitle(browse_server[1]),
                                   MovieValues(Group(media_by_type, media_type))))
                ELSE /\ Exit(1, "ValueError")
                     /\ UNCHANGED movies
  /\ calls' = << >>
  /\ UNCHANGED << account, resources, server, browse_server, all_media,
                  media_by_type, movie >>

\* the canceled movie dialog with return for break
MovieCancelReturns ==
  /\ pc = "select_movie"
  /\ UNCHANGED fn_vars
  /\ Answer(TRUE, 0)
  /\ browse_server' = << >>
  /\ all_media' = << >>
  /\ media_by_type' = << >>
  /\ movies' = << >>
  /\ movie' = << >>
  /\ SelectServerCall(<< >>)
  /\ UNCHANGED account

\* the canceled movie dialog with the catalog fetched again inside the loop
MovieCancelRefetches ==
  /\ pc = "select_movie"
  /\ UNCHANGED fn_vars
  /\ Answer(TRUE, 0)
  /\ MediaTypeMenu(browse_server[1], media_by_type)
  /\ calls' = << "library.all" >>
  /\ UNCHANGED << account, resources, server, browse_locals >>

\* the movie dialog is canceled: the inner loop breaks, the outer loop builds
\* the media-type values again
MovieCancel ==
  /\ pc = "select_movie"
  /\ UNCHANGED fn_vars
  /\ Answer(TRUE, 0)
  /\ MediaTypeMenu(browse_server[1], media_by_type)
  /\ calls' = << >>
  /\ UNCHANGED << account, resources, server, browse_locals >>

\* the chosen movie shown under the title of the other dialogs
MovieSelectTitleMain ==
  /\ pc = "select_movie"
  /\ UNCHANGED fn_vars
  /\ \E i \in 1..Len(dialog.values) :
       /\ Answer(FALSE, i)
       /\ movie' = << dialog.values[i][1] >>
       /\ Show(message_dialog("show_movie", TitleMain))
  /\ calls' = << >>
  /\ UNCHANGED << account, resources, server, browse_server, all_media,
                  media_by_type, movies >>

\* the movie dialog is answered with a movie: show_movie shows its details
MovieSelect ==
  /\ pc = "select_movie"
  /\ UNCHANGED fn_vars
  /\ \E i \in 1..Len(dialog.values) :
       /\ Answer(FALSE, i)
       /\ movie' = << dialog.values[i][1] >>
       /\ Show(message_dialog("show_movie", server[1].friendlyName))
  /\ calls' = << >>
  /\ UNCHANGED << account, resources, server, browse_server, all_media,
                  media_by_type, movies >>

\* the dismissed detail dialog followed by break
MovieDismissBreaks ==
  /\ pc = "show_movie"
  /\ UNCHANGED fn_vars
  /\ Answer(FALSE, 0)
  /\ movie' = << >>
  /\ MediaTypeMenu(browse_server[1], media_by_type)
  /\ calls' = << >>
  /\ UNCHANGED << account, resources, server, browse_server, all_media,
                  media_by_type, movies >>

\* the detail dialog is dismissed: show_movie returns, the inner loop shows
\* the movie dialog again
MovieDismiss ==
  /\ pc = "show_movie"
  /\ UNCHANGED fn_vars
  /\ Answer(FALSE, 0)
  /\ movie' = << >>
  /\ RunRadiolist(radiolist_dialog("select_movie", MoviesTitle(browse_server[1]),
                                   movies))
  /\ calls' = << >>
  /\ UNCHANGED << account, resources, server, browse_server, all_media,
                  media_by_type, movies >>

Next ==
  \/ Welcome
  \/ Username
  \/ PasswordCancel
  \/ PasswordAuthFails
  \/ PasswordSubmit
  \/ ServerCancel
  \/ ServerSelect
  \/ OperationCancel
  \/ OperationSelect
  \/ MediaTypeCancel
  \/ MediaTypeSelect
  \/ MovieCancel
  \/ MovieSelect
  \/ MovieDismiss

Spec == Init /\ [][Next]_vars

(* ------------------- functions evaluated on their own ------------------ *)
\* ms_to_str is given two durations a < b
Init_ms_to_str ==
  /\ ProgramInit
  /\ fn = "ms_to_str"
  /\ arg \in { ab \in Durations \X Durations : ab[1] < ab[2] }
  /\ ret = << >>

\* ms_to_str returns for both
Call_ms_to_str ==
  /\ fn = "ms_to_str"
  /\ ret = << >>
  /\ ret' = << ms_to_str(arg[1]), ms_to_str(arg[2]) >>
  /\ UNCHANGED << fn, arg, program_vars >>

Spec_ms_to_str == Init_ms_to_str /\ [][Call_ms_to_str]_vars

\* break_string is given a string and a width
Init_break_string ==
  /\ ProgramInit
  /\ fn = "break_string"
  /\ arg \in BreakInputs \X ((0 - 1)..MaxWidth)
  /\ ret = << >>

\* break_string returns
Call_break_string ==
  /\ fn = "break_string"
  /\ ret = << >>
  /\ ret' = << break_string(arg[1], arg[2]) >>
  /\ UNCHANGED << fn, arg, program_vars >>

Spec_break_string == Init_break_string /\ [][Call_break_string]_vars

\* show_movie is given a movie
Init_show_movie ==
  /\ ProgramInit
  /\ fn = "show_movie"
  /\ arg \in MovieDetails
  /\ ret = << >>

\* show_movie has built its text
Call_show_movie ==
  /\ fn = "show_movie"
  /\ ret = << >>
  /\ ret' = << show_movie_text(arg) >>
  /\ UNCHANGED << fn, arg, program_vars >>

Spec_show_movie == Init_show_movie /\ [][Call_show_movie]_vars

(* ------------------------------- claims -------------------------------- *)
\* C1: when the media-type menu is canceled, the next dialog shown is the
\* operation prompt of the same connected server and no catalog fetch happens
\* in between
C1_MediaTypeCancelToOperation ==
  (prev = "select_server_media_type" /\ input.cancel /\ pc # "exited") =>
     /\ pc = "select_server_operation"
     /\ server # << >>
     /\ dialog.title = server[1].friendlyName
     /\ \A k \in 1..Len(calls) : calls[k] # "library.all"

\* C2: answering the media-type menu with a type it offers never raises the
\* invalid-selection fault (ValueError)
C2_OfferedTypeIsValid ==
  (prev = "select_server_media_type" /\ ~ input.cancel) => fault # "ValueError"

\* C3: a canceled username or password prompt ends the process at once with
\* exit code 1: no password prompt after a canceled username prompt, no
\* authentication call, no server-selection dialog, no dialog at all afterwards
C3_CredentialCancelExits ==
  (prev \in {"prompt_username", "prompt_password"} /\ input.cancel) =>
     /\ pc = "exited"
     /\ exitcode = 1
     /\ dialog = NoDialog
     /\ calls = << >>
     /\ ~ account
     /\ "select_server" \notin shown
     /\ prev = "prompt_username" => "prompt_password" \notin shown
     /\ ~ ENABLED Next

C3_Witness ==
  /\ prev = "prompt_password"
  /\ input.cancel
  /\ pc = "exited"

\* C4: a canceled server-selection dialog connects no resource, shows no
\* further dialog and ends the program normally with exit code 0
C4_ServerCancelEndsNormally ==
  (prev = "select_server" /\ input.cancel) =>
     /\ pc = "exited"
     /\ exitcode = 0
     /\ fault = "none"
     /\ dialog = NoDialog
     /\ calls = << >>
     /\ server = << >>
     /\ ~ ENABLED Next

C4_Witness ==
  /\ prev = "select_server"
  /\ input.cancel
  /\ pc = "exited"
  /\ "show_movie" \in shown

\* C5 as stated: when the operation prompt is canceled, the next dialog is the
\* server-selection dialog, the catalog is not fetched and the process does
\* not exit
C5_OperationCancelToServerSelection ==
  (prev = "select_server_operation" /\ input.cancel) =>
     /\ pc = "select_server"
     /\ dialog.kind = "select_server"
     /\ \A k \in 1..Len(calls) : calls[k] # "library.all"

\* C5 as amended: when the operation prompt is canceled, the catalog is not
\* fetched and select_server lists the account's resources again; if that
\* call returns and the dialog is shown, the next dialog is the
\* server-selection dialog and the process does not exit; if the call raises,
\* or the toolkit rejects an empty server list, the process ends with status
\* 1 and no further dialog
C5_OperationCancelListsServers ==
  (prev = "select_server_operation" /\ input.cancel) =>
     /\ calls = << "resources" >>
     /\ \/ /\ pc = "select_server"
           /\ dialog.kind = "select_server"
           /\ dialog.values = ServerValues(resources)
           /\ fault = "none"
        \/ /\ pc = "exited"
           /\ fault \in {"resources", "AssertionError"}
           /\ fault = "AssertionError" => ServerValues(resources) = << >>
           /\ exitcode = 1
           /\ dialog = NoDialog

C5_Witness ==
  /\ prev = "select_server_operation"
  /\ input.cancel
  /\ pc = "select_server"
  /\ Len(dialog.values) >= 1

\* C6: after a movie is selected and its detail dialog dismissed, the next
\* dialog is the movie menu with the same entries in the same order as before
\* the selection, with no external call and the same grouping
C6_DismissReturnsToSameMovieMenu ==
  [][ /\ (pc = "select_movie" /\ pc' = "show_movie") =>
           /\ dialog.values = movies
           /\ movies' = movies
           /\ media_by_type' = media_by_type
           /\ calls' = << >>
      /\ (pc = "show_movie") =>
           /\ pc' = "select_movie"
           /\ dialog'.kind = "select_movie"
           /\ dialog'.values = movies
           /\ movies' = movies
           /\ media_by_type' = media_by_type
           /\ all_media' = all_media
           /\ calls' = << >> ]_vars

C6_Witness ==
  /\ prev = "show_movie"
  /\ pc = "select_movie"
  /\ Len(dialog.values) >= 2
  /\ dialog.values[1][1].id > dialog.values[2][1].id

\* C7: when the movie menu is canceled, the next dialog is the media-type
\* prompt of the same server with the choices it offered before, with no
\* external call and no fault
C7_MovieCancelToSameMediaTypeMenu ==
  [][ /\ (pc = "select_server_media_type" /\ pc' = "select_movie") =>
           /\ dialog.values = MediaValues(media_by_type)
           /\ dialog.title = browse_server[1].friendlyName
           /\ media_by_type' = media_by_type
           /\ browse_server' = browse_server
      /\ (pc \in {"select_movie", "show_movie"} /\ pc' \in {"select_movie", "show_movie"}) =>
           /\ media_by_type' = media_by_type
           /\ browse_server' = browse_server
      /\ (pc = "select_movie" /\ input'.cancel) =>
           /\ pc' = "select_server_media_type"
           /\ dialog'.kind = "select_server_media_type"
           /\ dialog'.values = MediaValues(media_by_type)
           /\ dialog'.title = browse_server[1].friendlyName
           /\ media_by_type' = media_by_type
           /\ browse_server' = browse_server
           /\ calls' = << >>
           /\ fault' = "none" ]_vars

C7_Witness ==
  /\ prev = "select_movie"
  /\ input.cancel
  /\ pc = "select_server_media_type"
  /\ Len(dialog.values) >= 2
  /\ "show_movie" \in shown

\* number of entries over all groups
RECURSIVE GroupedCount(_)
GroupedCount(m) ==
  IF m = << >> THEN 0
  ELSE Len(m[Len(m)][2]) + GroupedCount(SubSeq(m, 1, Len(m) - 1))

\* C8: the grouping is a partition of the fetched list by kind: every item is
\* in exactly one place, in the group keyed by its type; the counts add up;
\* no group is empty; each group keeps the input order
C8_GroupingIsPartition ==
  /\ \A i \in 1..Len(all_media) :
        Cardinality({ gj \in { << g, j >> : g \in 1..Len(media_by_type), j \in 1..MaxItems + 1 } :
                        /\ gj[2] <= Len(media_by_type[gj[1]][2])
                        /\ media_by_type[gj[1]][2][gj[2]] = all_media[i] }) = 1
  /\ \A g \in 1..Len(media_by_type) :
        /\ Len(media_by_type[g][2]) >= 1
        /\ \A j \in 1..Len(media_by_type[g][2]) :
              /\ media_by_type[g][2][j].type = media_by_type[g][1]
              /\ \E i \in 1..Len(all_media) : all_media[i] = media_by_type[g][2][j]
        /\ \A j, k \in 1..Len(media_by_type[g][2]) :
              j < k => media_by_type[g][2][j].id < media_by_type[g][2][k].id
  /\ \A g, h \in 1..Len(media_by_type) :
        g # h => media_by_type[g][1] # media_by_type[h][1]
  /\ GroupedCount(media_by_type) = Len(all_media)

C8_Witness ==
  /\ pc = "select_server_media_type"
  /\ Len(all_media) = 3
  /\ all_media[1].type = "show"
  /\ all_media[2].type = "movie"
  /\ all_media[3].type = "show"
  /\ Len(media_by_type) = 2

\* str.upper() of one character
UpperChar(c) ==
  IF \E i \in 1..Len(Lowers) : Lowers[i] = c
    THEN Uppers[CHOOSE i \in 1..Len(Lowers) : Lowers[i] = c]
    ELSE c

\* s contains the letters s-e-r-v-e-r in a row, each in either case
HasServerAnyCase(s) ==
  \E off \in 0..(Len(s) - Len(ServerTag)) :
     \A k \in 1..Len(ServerTag) :
        s[off + k] \in {ServerTag[k], UpperChar(ServerTag[k])}

\* C9: the server-selection dialog offers exactly the resources whose
\* provides string contains "server" in any letter-case, each once, in
\* ascending order of display name
C9_ServerDialogOffersServers ==
  (pc = "select_server") =>
     /\ \A v \in 1..Len(dialog.values) :
           /\ \E i \in 1..Len(resources) : dialog.values[v][1] = resources[i]
           /\ HasServerAnyCase(dialog.values[v][1].provides)
           /\ dialog.values[v][2] = dialog.values[v][1].name
     /\ \A i \in 1..Len(resources) :
           HasServerAnyCase(resources[i].provides) =>
              Cardinality({ v \in 1..Len(dialog.values) :
                              dialog.values[v][1] = resources[i] }) = 1
     /\ \A v, w \in 1..Len(dialog.values) :
           v < w => ~ StrLess(dialog.values[w][2], dialog.values[v][2])

C9_Witness ==
  /\ pc = "select_server"
  /\ Len(resources) = 2
  /\ Len(dialog.values) = 2
  /\ dialog.values[1][1].id > dialog.values[2][1].id
  /\ dialog.values[1][1].provides # ServerTag

\* C10: whenever the password prompt is on screen its input is masked, and
\* the username prompt was shown before it
C10_PasswordPromptMasked ==
  (dialog.kind = "prompt_password") =>
     /\ dialog.password
     /\ "prompt_username" \in shown

\* the fields of a string, cut at every ":" and "."
RECURSIVE Fields(_)
Fields(s) ==
  IF \E i \in 1..Len(s) : s[i] \in {":", "."}
    THEN LET i == CHOOSE i \in 1..Len(s) :
                    /\ s[i] \in {":", "."}
                    /\ \A j \in 1..(i - 1) : s[j] \notin {":", "."}
         IN  << SubSeq(s, 1, i - 1) >> \o Fields(SubSeq(s, i + 1, Len(s)))
    ELSE << s >>

\* the number a string of decimal digits denotes
RECURSIVE Value(_)
Value(s) ==
  IF s = << >> THEN 0
  ELSE 10 * Value(SubSeq(s, 1, Len(s) - 1))
         + (CHOOSE n \in 0..9 : Digits[n + 1] = s[Len(s)])

IsDigits(s) == \A i \in 1..Len(s) : \E n \in 1..Len(Digits) : Digits[n] = s[i]

\* the hours component of a result of ms_to_str
Hours(s) == Fields(s)[1]

\* C11 as stated: for a < b the hours component of ms_to_str(b) is never
\* lexicographically smaller than that of ms_to_str(a), also past two digits
C11_HoursLexicographicallyMonotonic ==
  (fn = "ms_to_str" /\ ret # << >>) =>
     ~ StrLess(Hours(ret[2]), Hours(ret[1]))

\* C11 as amended: for a < b the hours component of ms_to_str(b) is never
\* numerically smaller than that of ms_to_str(a), and never lexicographically
\* smaller when both have the same number of digits, as they do below 100 hours
C11_HoursMonotonicAtEqualWidth ==
  (fn = "ms_to_str" /\ ret # << >>) =>
     /\ Value(Hours(ret[1])) <= Value(Hours(ret[2]))
     /\ Len(Hours(ret[1])) = Len(Hours(ret[2])) =>
           ~ StrLess(Hours(ret[2]), Hours(ret[1]))
     /\ arg[2] < 100 * 3600000 => Len(Hours(ret[1])) = Len(Hours(ret[2]))

C11_Witness ==
  /\ fn = "ms_to_str"
  /\ ret # << >>
  /\ Hours(ret[1]) = << "0", "9" >>
  /\ Hours(ret[2]) = << "2", "4" >>

\* C12: ms_to_str(d) has four fields h:m:s.ms of digits with m < 60, s < 60,
\* ms < 1000 and h*3600000 + m*60000 + s*1000 + ms = d, padded to at least
\* 2, 2, 2 and 3 digits; 0, 3661000 and 500 give the strings of the spec
C12_FieldsAddUpToDuration ==
  (fn = "ms_to_str" /\ ret # << >>) =>
     \A k \in 1..2 :
        LET f == Fields(ret[k])
        IN  /\ Len(f) = 4
            /\ \A i \in 1..4 : IsDigits(f[i])
            /\ Len(f[1]) >= 2 /\ Len(f[2]) >= 2 /\ Len(f[3]) >= 2 /\ Len(f[4]) >= 3
            /\ Value(f[2]) < 60 /\ Value(f[3]) < 60 /\ Value(f[4]) < 1000
            /\ Value(f[1]) * 3600000 + Value(f[2]) * 60000
                 + Value(f[3]) * 1000 + Value(f[4]) = arg[k]
            /\ arg[k] = 0 =>
                  ret[k] = << "0","0",":","0","0",":","0","0",".","0","0","0" >>
            /\ arg[k] = 500 =>
                  ret[k] = << "0","0",":","0","0",":","0","0",".","5","0","0" >>
            /\ arg[k] = 3661000 =>
                  ret[k] = << "0","1",":","0","1",":","0","1",".","0","0","0" >>

C12_Witness ==
  /\ fn = "ms_to_str"
  /\ ret # << >>
  /\ arg = << 500, 3661000 >>

\* the label ends in " (N items)"
HasItemCount(label, n) ==
  LET tail == << " ", "(" >> \o IntToStr(n) \o << " ", "i", "t", "e", "m", "s", ")" >>
  IN  /\ Len(label) > Len(tail)
      /\ SubSeq(label, Len(label) - Len(tail) + 1, Len(label)) = tail

\* C13: once a catalog with at least one item is loaded, the media-type menu
\* is shown and offers exactly one choice per kind of the grouping and no
\* other, each labeled "... (N items)" with N the number of entries of the kind
C13_MediaMenuOffersEveryKind ==
  (/\ prev = "select_server_operation"
   /\ ~ input.cancel
   /\ media_by_type # << >>) =>
     /\ pc = "select_server_media_type"
     /\ Len(dialog.values) = Len(media_by_type)
     /\ \A g \in 1..Len(media_by_type) :
           \E v \in 1..Len(dialog.values) :
              /\ dialog.values[v][1] = media_by_type[g][1]
              /\ HasItemCount(dialog.values[v][2], Len(media_by_type[g][2]))

\* the process has ended with a non-zero status and nothing follows
EndedAbnormally ==
  /\ pc = "exited"
  /\ exitcode # 0
  /\ dialog = NoDialog
  /\ ~ ENABLED Next

\* C14: a failure of connecting the chosen resource or of loading the catalog
\* is not caught: the process ends with a non-zero status, and no dialog,
\* retry or return to a menu follows
C14_ConnectOrLoadFailureIsFatal ==
  /\ fault \in {"connect", "library.all"} => EndedAbnormally
  /\ (prev = "select_server" /\ ~ input.cancel) =>
        /\ calls = << "connect" >>
        /\ \/ pc = "select_server_operation" /\ fault = "none" /\ server # << >>
           \/ fault = "connect" /\ EndedAbnormally
  /\ (prev = "select_server_operation" /\ ~ input.cancel) =>
        /\ calls = << "library.all" >>
        /\ \/ pc = "select_server_media_type" /\ fault = "none"
           \/ fault \in {"library.all", "KeyError", "AssertionError"} /\ EndedAbnormally

C14_Witness ==
  /\ fault = "library.all"
  /\ pc = "exited"
  /\ prev = "select_server_operation"
  /\ "show_movie" \in shown

\* the pieces of a string between the occurrences of c
RECURSIVE Pieces(_, _)
Pieces(s, c) ==
  IF \E i \in 1..Len(s) : s[i] = c
    THEN LET i == CHOOSE i \in 1..Len(s) :
                    s[i] = c /\ \A j \in 1..(i - 1) : s[j] # c
         IN  << SubSeq(s, 1, i - 1) >> \o Pieces(SubSeq(s, i + 1, Len(s)), c)
    ELSE << s >>

\* the words of an emitted line: each is followed by one space
LineWords(line) ==
  LET p == Pieces(line, " ") IN SubSeq(p, 1, Len(p) - 1)

\* every emitted line is empty or ends with the space of its last word
WellFormedLine(line) == line = << >> \/ line[Len(line)] = " "

RECURSIVE Flatten(_)
Flatten(ss) ==
  IF ss = << >> THEN << >>
  ELSE Flatten(SubSeq(ss, 1, Len(ss) - 1)) \o ss[Len(ss)]

DetailLabels ==
  << << "<ansired>- Title:</ansired> ",              "title" >>,
     << "\n<ansired>- Original Title:</ansired> ",   "originalTitle" >>,
     << "\n<ansired>- Duration:</ansired> ",         "duration" >>,
     << "\n<ansired>- Release Date:</ansired> ",     "originallyAvailableAt" >>,
     << "\n<ansired>- Content Rating:</ansired> ",   "contentRating" >>,
     << "\n<ansired>- Critic Rating:</ansired> ",    "rating" >> >>

IsDetailLabel(t) == \E k \in 1..Len(DetailLabels) : DetailLabels[k][1] = t

\* the labels a text shows, in the order it shows them
LabelsShown(text) == SelectSeq(text, IsDetailLabel)

\* the labels of the non-null fields of mv among the labels after place k
RECURSIVE LabelsDue(_, _)
LabelsDue(mv, k) ==
  IF k > Len(DetailLabels) THEN << >>
  ELSE (IF mv[DetailLabels[k][2]] # << >> THEN << DetailLabels[k][1] >>
                                           ELSE << >>)
         \o LabelsDue(mv, k + 1)

\* the edition title stands in brackets in the text
EditionInBrackets(text) == \E i \in 1..Len(text) : text[i] = " ["

\* C16: the detail text shows the labelled fields title, original title,
\* duration, release date, content rating, critic rating in this order, each
\* of them (the title included) exactly when its value is not null, and the
\* edition title in brackets exactly when it is not null
C16_FieldShownIffNotNull ==
  (fn = "show_movie" /\ ret # << >>) =>
     /\ LabelsShown(ret[1]) = LabelsDue(arg, 1)
     /\ EditionInBrackets(ret[1]) <=> arg.editionTitle # << >>

\* the dialogs of the loops of server_operation_browse
BrowseDialogs == {"select_server_media_type", "select_movie", "show_movie"}

\* the number of server.library.all() calls in a sequence of calls
Fetches(cs) == Cardinality({ i \in 1..Len(cs) : cs[i] = "library.all" })

\* the answer given in this step selects "browse" at the operation prompt
BrowseSelected ==
  /\ pc = "select_server_operation"
  /\ ~input'.cancel
  /\ dialog.values[input'.index][1] = "browse"

\* C17: every step that selects "browse" calls server.library.all() once and
\* no other step calls it; a media-type menu shown on entering the loops is
\* built from the catalog fetched in that step; no answer inside the loops
\* fetches or regroups; backing out of the loops drops catalog and grouping
C17_FetchOncePerBrowse ==
  [][ /\ Fetches(calls') = (IF BrowseSelected THEN 1 ELSE 0)
      /\ (pc \notin BrowseDialogs /\ pc' = "select_server_media_type") =>
            /\ BrowseSelected
            /\ media_by_type' = server_list_all(all_media')
            /\ dialog'.values = MediaValues(media_by_type')
      /\ (pc \in BrowseDialogs /\ pc' \in BrowseDialogs) =>
            UNCHANGED << all_media, media_by_type >>
      /\ (pc' \in {"select_server", "select_server_operation"}) =>
            (all_media' = << >> /\ media_by_type' = << >>)
    ]_vars

C17_Witness ==
  /\ pc = "select_server_media_type"
  /\ prev = "select_server_operation"
  /\ calls = << "library.all" >>
  /\ Len(all_media) = MaxItems
  /\ "show_movie" \in shown

\* the dialogs after authentication
MenuDialogs ==
  {"select_server", "select_server_operation"} \cup BrowseDialogs

\* the answers still needed to leave the program by canceling: one dismissal
\* and three cancels from the detail dialog
Rank(p) ==
  CASE p = "show_movie"               -> 4
    [] p = "select_movie"             -> 3
    [] p = "select_server_media_type" -> 2
    [] p = "select_server_operation"  -> 2
    [] p = "select_server"            -> 1
    [] OTHER                          -> 0

\* the faults of a call into the account or the toolkit that does not return
ExternalFaults == {"MyPlexAccount", "resources", "connect", "library.all",
                   "AssertionError"}

\* the user dismisses or cancels the dialog on screen and every call made
\* before the next dialog returns
CancelReturns ==
  /\ \/ ServerCancel
     \/ OperationCancel
     \/ MediaTypeCancel
     \/ MovieDismiss
  /\ fault' = "none"

\* C18: in every menu state after authentication a dismissal or cancel whose
\* external calls return is possible (at the movie menu: the media-type
\* values built again after the cancel exist and raise nothing), and the
\* state after each one (prev is the dialog it answered) is a dialog strictly
\* nearer to the exit or the normal end of the process with code 0, so that
\* a user who only cancels is out after at most one dismissal and three
\* cancels
C18_CancelOnlyReachesExit ==
  /\ pc \in MenuDialogs \ {"select_movie"} => ENABLED CancelReturns
  /\ pc = "select_movie" =>
        (~ MediaKeyError(media_by_type) /\ MediaValues(media_by_type) # << >>)
  /\ (prev \in MenuDialogs /\ (input.cancel \/ prev = "show_movie")
                           /\ fault \notin ExternalFaults) =>
        /\ Rank(pc) < Rank(prev)
        /\ pc \in MenuDialogs \cup {"exited"}
        /\ pc = "exited" =>
             (exitcode = 0 /\ fault = "none" /\ prev = "select_server")

C18_Witness ==
  /\ pc = "exited"
  /\ exitcode = 0
  /\ fault = "none"
  /\ prev = "select_server"
  /\ input.cancel
  /\ BrowseDialogs \subseteq shown

\* the dialogs of the startup
StartupDialogs == {"show_welcome", "prompt_username", "prompt_password"}

\* C19: the username prompt follows the welcome dialog only, the password
\* prompt the username prompt only, MyPlexAccount is called in the step that
\* answers the password prompt only, and the first server selection is shown
\* in that same step after the call; once there is an account no step shows
\* a startup dialog, calls MyPlexAccount or changes the account
C19_StartupOnceInOrder ==
  [][ /\ pc' = "prompt_username" => pc = "show_welcome"
      /\ pc' = "prompt_password" => pc = "prompt_username"
      /\ pc' # "show_welcome"
      /\ (\E i \in 1..Len(calls') : calls'[i] = "MyPlexAccount") =>
            (pc = "prompt_password" /\ ~ account)
      /\ (pc' = "select_server" /\ pc \in StartupDialogs) =>
            /\ pc = "prompt_password"
            /\ calls' = << "MyPlexAccount", "resources" >>
            /\ account'
            /\ StartupDialogs \subseteq shown
      /\ pc' = "select_server" => account'
      /\ account =>
            /\ account'
            /\ pc' \notin StartupDialogs
            /\ pc \notin StartupDialogs
    ]_vars

C19_Witness ==
  /\ pc = "select_server"
  /\ prev = "select_server_media_type"
  /\ account
  /\ calls = << "resources" >>
  /\ "show_movie" \in shown

\* C20: whenever the detail dialog is on screen, the global server that
\* show_movie reads for the title is the server that was passed to the
\* running server_operation_browse, the dialog is titled with its name, and
\* the movie shown is an item of the catalog loaded from it
C20_DetailTitledWithBrowsedServer ==
  pc = "show_movie" =>
     /\ server # << >>
     /\ browse_server = server
     /\ dialog.title = browse_server[1].friendlyName
     /\ movie # << >>
     /\ \E i \in 1..Len(all_media) : all_media[i] = movie[1]

C20_Witness ==
  /\ pc = "show_movie"
  /\ prev = "select_movie"
  /\ browse_server # << >>
  /\ browse_server[1].resource = MaxResources
  /\ dialog.title = << "A", "l", "p", "h", "a" >>
====
